---- MODULE Spec2Model ----
(***************************************************************************)
(* Monte Carlo pricing of an exotic (quanto) option under Hull-White.      *)
(*                                                                         *)
(* The objects modelled are Single_time_Monte_Carlo                        *)
(* (version2/SIngle_time_Monte_Carlo.py) and the aggregation script        *)
(* (version-1/Option_Pricing.py).                                          *)
(*                                                                         *)
(* Numbers.  Python floats are modelled as fixed-point numbers: the        *)
(* integer x stands for x / SCALE.  Every float operation rounds its exact *)
(* result to the nearest representable number, as IEEE arithmetic does.    *)
(* The non-finite floats (inf, -inf, nan) appear only where the code can   *)
(* produce them within the inputs modelled: in the libor ratio, the payoff *)
(* and everything computed from the payoff.  Those values are records      *)
(* [k, v]: see Fin, PosInf, NegInf, NaN.                                   *)
(***************************************************************************)
EXTENDS Integers, Sequences, FiniteSets, TLC

\* ------------------------------------------------------------------ bounds

\* resolution of the fixed-point numbers: x stands for x / SCALE
SCALE == 1000
\* number of terms of the exponential series
ExpTerms == 8
\* largest iteration_times (steps of one path) drawn
MaxIter == 3
\* states of the pseudo random generator
RngMod == 3
\* start_monte_carlo invocations counted per object outside the script's loop
MaxRunsCounted == 2
\* week records in the treasury feed, at most
MaxWeeks == 6
\* day records in a week of the feed, at most
MaxDays == 2

\* ------------------------------------------------- float arithmetic (finite)

Abs(x) == IF x < 0 THEN -x ELSE x

\* a / b rounded to the nearest integer, halves away from zero (b # 0)
RoundDiv(a, b) ==
    LET q == (2 * Abs(a) + Abs(b)) \div (2 * Abs(b))
    IN  IF (a < 0) # (b < 0) THEN -q ELSE q

\* x * y on floats
FMul(x, y) == RoundDiv(x * y, SCALE)

\* x / y on floats, y # 0
FDiv(x, y) == RoundDiv(x * SCALE, y)

\* int(x): truncation toward zero
PyInt(x) == IF x < 0 THEN -((-x) \div SCALE) ELSE x \div SCALE

RECURSIVE ExpSeries(_, _, _, _)
ExpSeries(x, term, n, acc) ==
    IF n > ExpTerms \/ term = 0 THEN acc
    ELSE LET next == RoundDiv(term * x, n * SCALE)
         IN  ExpSeries(x, next, n + 1, acc + next)

\* np.exp(x)
FExp(x) == ExpSeries(x, SCALE, 1, SCALE)

RECURSIVE ISqrtIter(_, _, _)
ISqrtIter(n, lo, hi) ==
    IF lo >= hi THEN lo
    ELSE LET mid == (lo + hi + 1) \div 2
         IN  IF mid * mid <= n THEN ISqrtIter(n, mid, hi)
             ELSE ISqrtIter(n, lo, mid - 1)

\* np.sqrt(x), x >= 0
FSqrt(x) == ISqrtIter(x * SCALE, 0, x + SCALE)

\* ------------------------------------------- float arithmetic (non-finite)

Fin(x) == [k |-> "fin", v |-> x]
PosInf == [k |-> "inf", v |-> 1]
NegInf == [k |-> "inf", v |-> -1]
NaN == [k |-> "nan", v |-> 0]

IsFinite(x) == x.k = "fin"
IsNaN(x) == x.k = "nan"

Sign(n) == IF n > 0 THEN 1 ELSE IF n < 0 THEN -1 ELSE 0

Inf(s) == IF s > 0 THEN PosInf ELSE NegInf

\* x + y
ExtAdd(x, y) ==
    IF IsNaN(x) \/ IsNaN(y) THEN NaN
    ELSE IF IsFinite(x) /\ IsFinite(y) THEN Fin(x.v + y.v)
    ELSE IF IsFinite(x) THEN y
    ELSE IF IsFinite(y) THEN x
    ELSE IF x.v = y.v THEN x ELSE NaN

ExtNeg(x) == IF IsNaN(x) THEN NaN ELSE [k |-> x.k, v |-> -x.v]

\* x - y
ExtSub(x, y) == ExtAdd(x, ExtNeg(y))

\* x * y
ExtMul(x, y) ==
    IF IsNaN(x) \/ IsNaN(y) THEN NaN
    ELSE IF IsFinite(x) /\ IsFinite(y) THEN Fin(FMul(x.v, y.v))
    ELSE IF Sign(x.v) = 0 \/ Sign(y.v) = 0 THEN NaN
    ELSE Inf(Sign(x.v) * Sign(y.v))

\* x / y on numpy floats: a zero divisor gives inf or nan, never an exception
ExtDiv(x, y) ==
    IF IsNaN(x) \/ IsNaN(y) THEN NaN
    ELSE IF IsFinite(x) /\ IsFinite(y)
         THEN IF y.v # 0 THEN Fin(FDiv(x.v, y.v))
              ELSE IF x.v = 0 THEN NaN ELSE Inf(Sign(x.v))
    ELSE IF IsFinite(x) THEN Fin(0)
    ELSE IF IsFinite(y) THEN Inf(Sign(x.v) * (IF y.v < 0 THEN -1 ELSE 1))
    ELSE NaN

\* x > y; every comparison with nan is false
ExtGt(x, y) ==
    IF IsNaN(x) \/ IsNaN(y) THEN FALSE
    ELSE IF IsFinite(x) /\ IsFinite(y) THEN x.v > y.v
    ELSE IF IsFinite(x) THEN y.v < 0
    ELSE IF IsFinite(y) THEN x.v > 0
    ELSE x.v > y.v

\* the builtin max(a, b): b when b > a, else a
PyMax(a, b) == IF ExtGt(b, a) THEN b ELSE a

\* ------------------------------------------------------------ Bond_Data

\* The quotes the curve is fitted through: the yield quoted for maturity x
\* is bond_data.yld + bond_data.slope * x (annualized), and the bond price is
\* exp(-yield * x) (get_bond_prices).
CurveYield(bond_data, x) == bond_data.yld + FMul(bond_data.slope, x)

\* minus the derivative of the logarithm of the fitted curve at x
LogPriceSlope(bond_data, x) == bond_data.yld + FMul(2 * bond_data.slope, x)

\* scipy's splev(x, tck_bond, der) on the curve fitted through the bond
\* prices: the value and the first two derivatives of the curve at x.
SplEv(bond_data, x, der) ==
    IF der = 0 THEN FExp(-FMul(CurveYield(bond_data, x), x))
    ELSE IF der = 1
         THEN -FMul(LogPriceSlope(bond_data, x),
                    FExp(-FMul(CurveYield(bond_data, x), x)))
    ELSE FMul(FMul(LogPriceSlope(bond_data, x), LogPriceSlope(bond_data, x))
              - 2 * bond_data.slope,
              FExp(-FMul(CurveYield(bond_data, x), x)))

get_value_on_cubic_spline_for_bond_prices(bond_data, x) == SplEv(bond_data, x, 0)

get_value_for_forward_rate(bond_data, x) ==
    FDiv(-SplEv(bond_data, x, 1), SplEv(bond_data, x, 0))

\* the derivative of the forward rate from the curve's value p0 and its
\* derivatives p1, p2
ForwardRateSlope(p0, p1, p2) ==
    FMul(FDiv(-SCALE, p0), p2) + FMul(FMul(FDiv(SCALE, FMul(p0, p0)), p1), p1)

get_value_for_T_derivative_of_forward_rate(bond_data, x) ==
    ForwardRateSlope(SplEv(bond_data, x, 0), SplEv(bond_data, x, 1),
                     SplEv(bond_data, x, 2))

\* ------------------------------------------------ Single_time_Monte_Carlo

\* random_seed is <<>> for None and <<s>> for the integer s
NoSeed == <<>>

\* Single_time_Monte_Carlo.__init__: the object built from the arguments c.
\* No argument is checked.
SimInit(c) ==
    [bond_data |-> c.bond_data,
     domestic_risk_free_rate_vol |-> c.domestic_risk_free_rate_vol,
     mean_reversion_speed |-> c.mean_reversion_speed,
     maturity_T |-> c.maturity_T,
     iteration_times |-> c.iteration_times,
     timestep |-> RoundDiv(c.maturity_T, c.iteration_times),
     domestic_risk_free_rate_list |-> [i \in 1..(c.iteration_times + 1) |-> 0],
     nikkei_price_list |-> [i \in 1..(c.iteration_times + 1) |-> 0],
     current_federal_funds_rate |-> c.current_federal_funds_rate,
     current_nikkei_price |-> c.current_nikkei_price,
     correlation_foreign_asset_and_domestic_risk_free_rate |->
         c.correlation_foreign_asset_and_domestic_risk_free_rate,
     correlation_foreign_asset_and_exchange_rate |->
         c.correlation_foreign_asset_and_exchange_rate,
     foreign_risk_free_rate |-> c.foreign_risk_free_rate,
     nikkei_dividends |-> c.nikkei_dividends,
     foreign_asset_vol |-> c.foreign_asset_vol,
     exchange_rate_vol |-> c.exchange_rate_vol,
     Delta |-> c.Delta,
     strike_price_nikkei |-> c.strike_price_nikkei,
     strike_price_libor |-> c.strike_price_libor,
     random_seed |-> c.random_seed]

B_t_T(self, t, T) ==
    FMul(FDiv(SCALE, self.mean_reversion_speed),
         SCALE - FExp(FMul(-self.mean_reversion_speed, T - t)))

\* x ** 2
Square(x) == FMul(x, x)

G(self, t) ==
    FMul(FMul(SCALE \div 2, Square(self.domestic_risk_free_rate_vol)),
         Square(B_t_T(self, 0, t)))

first_derivative_of_G(self, t) ==
    FMul(FMul(FMul(self.domestic_risk_free_rate_vol, self.domestic_risk_free_rate_vol),
              B_t_T(self, 0, t)),
         FExp(FMul(-self.mean_reversion_speed, t)))

Theta(self, t) ==
    get_value_for_T_derivative_of_forward_rate(self.bond_data, t)
    + first_derivative_of_G(self, t)
    + FMul(self.mean_reversion_speed,
           get_value_for_forward_rate(self.bond_data, t) + G(self, t))

\* p(t, T) with B = B(t, T)
BondPriceWithB(self, t, T, r_t, B) ==
    FMul(FDiv(get_value_on_cubic_spline_for_bond_prices(self.bond_data, T),
              get_value_on_cubic_spline_for_bond_prices(self.bond_data, t)),
         FExp(FMul(B, get_value_for_forward_rate(self.bond_data, t))
              - FMul(FMul(FMul(FDiv(SCALE, 4 * self.mean_reversion_speed),
                               FMul(self.domestic_risk_free_rate_vol,
                                    self.domestic_risk_free_rate_vol)),
                          FMul(B, B)),
                     SCALE - FExp(FMul(-2 * self.mean_reversion_speed, t)))
              - FMul(B, r_t)))

p_t_T(self, t, T, r_t) == BondPriceWithB(self, t, T, r_t, B_t_T(self, t, T))

\* -------------------------------------------------------------- np.random

\* the generator's next state
NextRng(g) == (g + 1) % RngMod

\* the standard normal draw the generator gives in state g
Normal(g) == (g - RngMod \div 2) * (SCALE \div 2)

\* the state np.random.seed(s) puts the generator in
SeedState(s) == s % RngMod

RECURSIVE RngAfter(_, _)
RngAfter(g, n) == IF n = 0 THEN g ELSE RngAfter(NextRng(g), n - 1)

\* np.random.normal(0, 1, [n, 2]) from state g: rands[i, j] (i, j from 0)
\* is the draw number 2 * i + j
Rands(g, i, j) == Normal(RngAfter(g, 2 * i + j))

\* --------------------------------------------------- start_monte_carlo

\* one step of the short rate, from r = list[i]
RateStep(self, r, i, epsilon1, epsilon2) ==
    r
    + FMul(Theta(self, i * self.timestep) - FMul(self.mean_reversion_speed, r),
           self.timestep)
    + FMul(FMul(self.domestic_risk_free_rate_vol, FSqrt(self.timestep)),
           FMul(self.correlation_foreign_asset_and_domestic_risk_free_rate, epsilon2)
           + FMul(FSqrt(SCALE - FMul(self.correlation_foreign_asset_and_domestic_risk_free_rate,
                                      self.correlation_foreign_asset_and_domestic_risk_free_rate)),
                  epsilon1))

\* mutant of AssetStep: the asset is driven by the first draw of the pair
AssetStep_FirstDraw(self, s, epsilon1, epsilon2) ==
    s
    + FMul(FMul(s, self.foreign_risk_free_rate - self.nikkei_dividends
                   - FMul(FMul(self.correlation_foreign_asset_and_exchange_rate,
                               self.foreign_asset_vol),
                          self.exchange_rate_vol)),
           self.timestep)
    + FMul(FMul(FMul(s, self.foreign_asset_vol), FSqrt(self.timestep)), epsilon1)

\* one step of the asset price, from s = list[i]
AssetStep(self, s, epsilon1, epsilon2) ==
    s
    + FMul(FMul(s, self.foreign_risk_free_rate - self.nikkei_dividends
                   - FMul(FMul(self.correlation_foreign_asset_and_exchange_rate,
                               self.foreign_asset_vol),
                          self.exchange_rate_vol)),
           self.timestep)
    + FMul(FMul(FMul(s, self.foreign_asset_vol), FSqrt(self.timestep)), epsilon2)

\* the object after steps i .. iteration_times - 1 of the loop, the draws
\* taken from state g
RECURSIVE PathLoop(_, _, _)
PathLoop(self, g, i) ==
    IF i >= self.iteration_times THEN self
    ELSE PathLoop(
             [self EXCEPT
                 !.domestic_risk_free_rate_list[i + 2] =
                     RateStep(self, self.domestic_risk_free_rate_list[i + 1], i,
                              Rands(g, i, 0), Rands(g, i, 1)),
                 !.nikkei_price_list[i + 2] =
                     AssetStep(self, self.nikkei_price_list[i + 1],
                               Rands(g, i, 0), Rands(g, i, 1))],
             g, i + 1)

\* mutant of SeededState: the seed is ignored
SeededState_Unseeded(self, entropy) == entropy

\* the generator state the run draws from: np.random.seed(random_seed) sets
\* it from the seed; with seed None it is set from fresh entropy
SeededState(self, entropy) ==
    IF self.random_seed = NoSeed THEN entropy ELSE SeedState(self.random_seed[1])

\* mutant of start_monte_carlo: index 0 of the lists is not set
start_monte_carlo_NoCurrentData(self, entropy) ==
    PathLoop(self, SeededState(self, entropy), 0)

\* start_monte_carlo: the object after the run
start_monte_carlo(self, entropy) ==
    PathLoop([self EXCEPT
                 !.domestic_risk_free_rate_list[1] = self.current_federal_funds_rate,
                 !.nikkei_price_list[1] = self.current_nikkei_price],
             SeededState(self, entropy), 0)

\* the generator's state after the run's 2 * iteration_times draws
RngAfterRun(self, entropy) ==
    RngAfter(SeededState(self, entropy), 2 * self.iteration_times)

\* ------------------------------------------------- accessors and payoff

\* int(time / self.timestep)
IndexInList(self, time) == PyInt(FDiv(time, self.timestep))

get_domestic_risk_free_rate_at_a_specified_time(self, time) ==
    self.domestic_risk_free_rate_list[IndexInList(self, time) + 1]

get_nikkei_price_at_a_specified_time(self, time) ==
    self.nikkei_price_list[IndexInList(self, time) + 1]

\* the ratio from the curve's prices pt = p(0, t), pT = p(0, T)
LiborRatioFrom(self, t, T, pt, pT) ==
    ExtMul(ExtDiv(Fin(pT), Fin(pt - pT)),
           ExtSub(ExtDiv(Fin(SCALE),
                         Fin(p_t_T(self, t, T,
                                   get_domestic_risk_free_rate_at_a_specified_time(self, t)))),
                  Fin(SCALE)))

libor_rate_ratio(self, t, T) ==
    LiborRatioFrom(self, t, T,
                   get_value_on_cubic_spline_for_bond_prices(self.bond_data, t),
                   get_value_on_cubic_spline_for_bond_prices(self.bond_data, T))

\* the two legs of the payoff and their product
NikkeiLeg(self) ==
    Fin(FDiv(get_nikkei_price_at_a_specified_time(self, self.maturity_T),
             self.current_nikkei_price)
        - self.strike_price_nikkei)

LiborLeg(self) ==
    ExtSub(Fin(self.strike_price_libor),
           libor_rate_ratio(self, self.maturity_T - self.Delta, self.maturity_T))

LegProduct(self) == ExtMul(NikkeiLeg(self), LiborLeg(self))

\* mutant of price_Exotic_Option_at_maturity: each leg floored on its own
price_Exotic_Option_at_maturity_FlooredLegs(self) ==
    ExtMul(PyMax(Fin(0), NikkeiLeg(self)), PyMax(Fin(0), LiborLeg(self)))

price_Exotic_Option_at_maturity(self) == PyMax(Fin(0), LegProduct(self))

\* mutant of SumOfShortRates: the loop runs over range(end_index + 1)
RECURSIVE SumOfShortRates_Inclusive(_, _, _, _)
SumOfShortRates_Inclusive(self, i, end_index, acc) ==
    IF i > end_index THEN acc
    ELSE SumOfShortRates_Inclusive(self, i + 1, end_index,
             acc + FMul(self.domestic_risk_free_rate_list[i + 1], self.timestep))

\* sum_of_short_rates after the loop over range(end_index)
RECURSIVE SumOfShortRates(_, _, _, _)
SumOfShortRates(self, i, end_index, acc) ==
    IF i >= end_index THEN acc
    ELSE SumOfShortRates(self, i + 1, end_index,
             acc + FMul(self.domestic_risk_free_rate_list[i + 1], self.timestep))

discount_factor(self, T) ==
    FExp(-SumOfShortRates(self, 0, IndexInList(self, T), 0))

current_price_Exotic_Option(self) ==
    ExtMul(Fin(discount_factor(self, self.maturity_T)), price_Exotic_Option_at_maturity(self))

\* ---------------------------------------------------- Option_Pricing.py

\* number of Monte Carlo simulations
NUM_SIMULATION == 3

\* the builtin sum(listt): left to right from 0
RECURSIVE PySum(_, _, _)
PySum(listt, i, acc) ==
    IF i > Len(listt) THEN acc ELSE PySum(listt, i + 1, ExtAdd(acc, listt[i]))

\* x / n for the count n >= 1
DivByCount(x, n) == IF IsFinite(x) THEN Fin(RoundDiv(x.v, n)) ELSE x

\* mutants of cumulative_average_of_list: the slice one entry short ...
cumulative_average_of_list_ShortSlice(listt) ==
    [i \in 1..Len(listt) |-> DivByCount(PySum(SubSeq(listt, 1, i - 1), 1, Fin(0)), i)]

\* ... and a running average that halves the weight of the earlier runs
RECURSIVE RunningHalf(_, _)
RunningHalf(listt, i) ==
    IF i = 1 THEN listt[1]
    ELSE DivByCount(ExtAdd(RunningHalf(listt, i - 1), listt[i]), 2)

cumulative_average_of_list_Running(listt) ==
    [i \in 1..Len(listt) |-> RunningHalf(listt, i)]

\* entry i (from 1) is sum(listt[:i]) / i
cumulative_average_of_list(listt) ==
    [i \in 1..Len(listt) |-> DivByCount(PySum(SubSeq(listt, 1, i), 1, Fin(0)), i)]

\* mutant of DataFrameSetColumn: the columns are the simulator's one list
\* object, so every column reads as the path written last
DataFrameSetColumn_SharedBuffer(df, listt) == [k \in 1..(Len(df) + 1) |-> listt]

\* df[i] = listt, i the next column: pandas copies the values of the list
\* into the new column
DataFrameSetColumn(df, listt) == Append(df, listt)

\* ------------------------------------- Bond_Data: get_data_for_newest_day

\* What xmltodict gives for an element of the feed: a list of records when
\* the element is repeated, the record itself when it occurs once.  Both are
\* written [kind, items]; a single record has kind "dict" and one item.
PyList(items) == [kind |-> "list", items |-> items]

PyDict(record) == [kind |-> "dict", items |-> <<record>>]

\* x[i] for i >= 0 does not raise: x is a list with more than i items (on a
\* record the integer key raises KeyError, on a short list IndexError)
HasIndex(x, i) == x.kind = "list" /\ i < Len(x.items)

\* mutant of WeekLoop: the first week that is there is taken
WeekLoop_FirstWeek(weeks, i) ==
    IF HasIndex(weeks, 0) THEN PyDict(weeks.items[1]) ELSE weeks

\* last_week_of_the_month_data after the loop has tried the indices
\* i, i - 1, .., 0: the record at the first index that does not raise, and
\* the whole of G_WEEK_OF_MONTH when every index raises
RECURSIVE WeekLoop(_, _)
WeekLoop(weeks, i) ==
    IF i < 0 THEN weeks
    ELSE IF HasIndex(weeks, i) THEN PyDict(weeks.items[i + 1])
    ELSE WeekLoop(weeks, i - 1)

\* the try / except on ['G_NEW_DATE'][-1]: the last record of a list of
\* days, the record itself when the days are a single record
LatestDay(days) ==
    IF days.kind = "list" /\ Len(days.items) >= 1
    THEN days.items[Len(days.items)]
    ELSE days.items[1]

\* get_data_for_newest_day on the parsed feed: weeks is
\* data['QR_BC_CM']['LIST_G_WEEK_OF_MONTH']['G_WEEK_OF_MONTH']
get_data_for_newest_day(weeks) ==
    LatestDay(WeekLoop(weeks, 4).items[1].LIST_G_NEW_DATE)

\* -------------------------- Fed_Data: get_current_federal_funds_rate

DaysInMonth(month, leap) ==
    IF month = 2 THEN (IF leap THEN 29 ELSE 28)
    ELSE IF month \in {4, 6, 9, 11} THEN 30
    ELSE 31

IsDate(month, day, leap) ==
    month \in 1..12 /\ day \in 1..DaysInMonth(month, leap)

\* datetime.date.replace(month=.., day=..): <<the new date>>, or <<>> when
\* the constructor raises ValueError because there is no such date
DateReplace(date, month, day) ==
    IF IsDate(month, day, date.leap)
    THEN <<[date EXCEPT !.month = month, !.day = day]>>
    ELSE <<>>

\* get_current_federal_funds_rate when today is date and the one
\* observation FRED answers the query with is that of the month observed:
\* the rate of that month, or the ValueError raised on the way
get_current_federal_funds_rate(date, observed) ==
    IF DateReplace(date, date.month, 1) = <<>>
    THEN [kind |-> "ValueError", month |-> 0]
    ELSE IF DateReplace(date, date.month - 1, date.day) = <<>>
    THEN [kind |-> "ValueError", month |-> 0]
    ELSE [kind |-> "rate", month |-> observed]

\* ------------------------------------------------------------- the inputs

\* The arguments the simulator is constructed with.  Fixed: the values the
\* script sets (Option_Pricing.py lines 45-59), and a level of the asset and
\* of its dividend yield.  Drawn: the yield of the quotes, the volatility of
\* the short rate, the number of steps, the current short rate and the seed.
ValidConfigs ==
    [bond_data : [yld : {0, 20}, slope : {0}],
     domestic_risk_free_rate_vol : {0, 15},
     mean_reversion_speed : {30},
     maturity_T : {2 * SCALE},
     Delta : {SCALE \div 4},
     strike_price_nikkei : {1 * SCALE},
     strike_price_libor : {1 * SCALE},
     iteration_times : 1..MaxIter,
     current_federal_funds_rate : {-20, 0, 50},
     current_nikkei_price : {2 * SCALE},
     correlation_foreign_asset_and_domestic_risk_free_rate : {300},
     correlation_foreign_asset_and_exchange_rate : {-200},
     foreign_risk_free_rate : {-1},
     nikkei_dividends : {20},
     foreign_asset_vol : {248},
     exchange_rate_vol : {97},
     random_seed : {NoSeed, <<1>>}]

\* The constructor takes every argument as it is given: here a correlation of
\* the asset with the exchange rate of 2, which is no correlation.
InvalidConfigs ==
    {[c EXCEPT !.correlation_foreign_asset_and_exchange_rate = 2 * SCALE] :
        c \in {v \in ValidConfigs : /\ v.bond_data.yld = 20
                                    /\ v.domestic_risk_free_rate_vol = 15
                                    /\ v.current_federal_funds_rate = 50}}

\* a yield curve that rises with the maturity
SlopedConfigs ==
    {[c EXCEPT !.bond_data.slope = 50] :
        c \in {v \in ValidConfigs : /\ v.bond_data.yld = 20
                                    /\ v.domestic_risk_free_rate_vol = 15
                                    /\ v.current_federal_funds_rate = 50}}

\* no volatility at all: of the short rate, of the asset, of the exchange rate
ZeroVolConfigs ==
    {[c EXCEPT !.foreign_asset_vol = 0, !.exchange_rate_vol = 0] :
        c \in {v \in ValidConfigs : v.domestic_risk_free_rate_vol = 0}}

Configs == ValidConfigs \cup InvalidConfigs \cup SlopedConfigs \cup ZeroVolConfigs

\* the arguments drawn where only the paths are looked at
ObjectConfigs ==
    {c \in ValidConfigs : c.bond_data.yld = 20 /\ c.current_federal_funds_rate = 50}

RngStates == 0..(RngMod - 1)

\* a day record of the feed: the day number d of week w
DayRecord(w, d) == [BID_CURVE_DATE |-> <<w, d>>]

\* a week record: n = 0 for one day given as a single record, n >= 1 for a
\* list of n days
WeekRecord(w, n) ==
    [LIST_G_NEW_DATE |->
        IF n = 0 THEN PyDict(DayRecord(w, 1))
        ELSE PyList([d \in 1..n |-> DayRecord(w, d)])]

\* the feeds: a list of 1..MaxWeeks week records, or one week record given
\* as a single record
Feeds ==
    {PyList([w \in 1..Len(shape) |-> WeekRecord(w, shape[w])]) :
        shape \in UNION {[1..L -> 0..MaxDays] : L \in 1..MaxWeeks}}
    \cup {PyDict(WeekRecord(1, n)) : n \in 0..MaxDays}

\* today: every date of a year, leap or not
Dates ==
    {date \in [month : 1..12, day : 1..31, leap : BOOLEAN] :
        IsDate(date.month, date.day, date.leap)}

\* the months FRED's one observation can be of: the current one or the one
\* before
ObservedMonths(date) ==
    {date.month, IF date.month = 1 THEN 12 ELSE date.month - 1}

\* ------------------------------------------------------------------ state

VARIABLES
    cfg,                        \* the arguments of the run (Option_Pricing.py 23-63)
    pc,                         \* where the script is: "setup", "loop", "done"
    single_time_monte_carlo,    \* <<>> or <<the script's simulator object>>
    first_runs,                 \* start_monte_carlo invocations on it
    second_simulator,           \* <<>> or <<a second object built from cfg>>
    second_runs,                \* start_monte_carlo invocations on it
    np_random_state,            \* the process-wide generator of np.random
    df_domestic_short_rate_processes,   \* column i: the short rates of run i
    list_of_prices_Exotic_option,
    cumulative_average_of_Exotic_Option_prices,
    printed,                    \* <<>> or <<the price printed>>
    url_data,                   \* the parsed treasury feed (its G_WEEK_OF_MONTH)
    newest_day,                 \* <<>> or <<what get_data_for_newest_day returned>>
    today,                      \* datetime.date.today()
    fred_observation,           \* the month of the observation FRED answers with
    federal_funds_rate          \* <<>> or <<the outcome of get_current_federal_funds_rate>>

\* the state of the data modules
dataVars == <<url_data, newest_day, today, fred_observation, federal_funds_rate>>

vars == <<cfg, pc, single_time_monte_carlo, first_runs, second_simulator,
          second_runs, np_random_state, df_domestic_short_rate_processes,
          list_of_prices_Exotic_option,
          cumulative_average_of_Exotic_Option_prices, printed, dataVars>>

\* the data modules are not looked at: one feed, one date, nothing fetched
DataIdle ==
    /\ url_data = PyDict(WeekRecord(1, 0))
    /\ newest_day = <<>>
    /\ today = [month |-> 5, day |-> 4, leap |-> FALSE]
    /\ fred_observation = 4
    /\ federal_funds_rate = <<>>

Init ==
    /\ cfg \in Configs
    /\ pc = "setup"
    /\ single_time_monte_carlo = <<>>
    /\ first_runs = 0
    /\ second_simulator = <<>>
    /\ second_runs = 0
    /\ np_random_state \in RngStates
    /\ df_domestic_short_rate_processes = <<>>
    /\ list_of_prices_Exotic_option = <<>>
    /\ cumulative_average_of_Exotic_Option_prices = <<>>
    /\ printed = <<>>
    /\ DataIdle

\* Option_Pricing.py 67-88: the simulator is constructed, the stores are empty
Construct ==
    /\ pc = "setup"
    /\ single_time_monte_carlo' = <<SimInit(cfg)>>
    /\ pc' = "loop"
    /\ UNCHANGED dataVars
    /\ UNCHANGED <<cfg, first_runs, second_simulator, second_runs, np_random_state,
                   df_domestic_short_rate_processes, list_of_prices_Exotic_option,
                   cumulative_average_of_Exotic_Option_prices, printed>>

\* Option_Pricing.py 91-96: one pass of the loop
SimulationStep ==
    /\ pc = "loop"
    /\ Len(list_of_prices_Exotic_option) < NUM_SIMULATION
    /\ \E entropy \in RngStates :
         \E self \in {start_monte_carlo(single_time_monte_carlo[1], entropy)} :
             /\ single_time_monte_carlo' = <<self>>
             /\ np_random_state' = RngAfterRun(self, entropy)
             /\ df_domestic_short_rate_processes' =
                    DataFrameSetColumn(df_domestic_short_rate_processes,
                                       self.domestic_risk_free_rate_list)
             /\ list_of_prices_Exotic_option' =
                    Append(list_of_prices_Exotic_option,
                           price_Exotic_Option_at_maturity(self))
    /\ first_runs' = first_runs + 1
    /\ UNCHANGED dataVars
    /\ UNCHANGED <<cfg, pc, second_simulator, second_runs,
                   cumulative_average_of_Exotic_Option_prices, printed>>

\* Option_Pricing.py 110-113: the cumulative averages and the price printed
Report ==
    /\ pc = "loop"
    /\ Len(list_of_prices_Exotic_option) = NUM_SIMULATION
    /\ cumulative_average_of_Exotic_Option_prices' =
           cumulative_average_of_list(list_of_prices_Exotic_option)
    /\ printed' = <<cumulative_average_of_list(list_of_prices_Exotic_option)[NUM_SIMULATION]>>
    /\ pc' = "done"
    /\ UNCHANGED dataVars
    /\ UNCHANGED <<cfg, single_time_monte_carlo, first_runs, second_simulator,
                   second_runs, np_random_state, df_domestic_short_rate_processes,
                   list_of_prices_Exotic_option>>

Next ==
    \/ Construct
    \/ SimulationStep
    \/ Report

\* the script
Spec == Init /\ [][Next]_vars

\* -------------------------------- the class under any sequence of calls

CountRun(n) == IF n < MaxRunsCounted THEN n + 1 ELSE n

\* a second Single_time_Monte_Carlo built from the same arguments
ConstructSecond ==
    /\ second_simulator = <<>>
    /\ second_simulator' = <<SimInit(cfg)>>
    /\ UNCHANGED dataVars
    /\ UNCHANGED <<cfg, pc, single_time_monte_carlo, first_runs, second_runs,
                   np_random_state, df_domestic_short_rate_processes,
                   list_of_prices_Exotic_option,
                   cumulative_average_of_Exotic_Option_prices, printed>>

\* start_monte_carlo on the first object
RunFirst ==
    /\ single_time_monte_carlo # <<>>
    /\ \E entropy \in RngStates :
         /\ single_time_monte_carlo' =
                <<start_monte_carlo(single_time_monte_carlo[1], entropy)>>
         /\ np_random_state' = RngAfterRun(single_time_monte_carlo[1], entropy)
    /\ first_runs' = CountRun(first_runs)
    /\ UNCHANGED dataVars
    /\ UNCHANGED <<cfg, pc, second_simulator, second_runs,
                   df_domestic_short_rate_processes, list_of_prices_Exotic_option,
                   cumulative_average_of_Exotic_Option_prices, printed>>

\* start_monte_carlo on the second object
RunSecond ==
    /\ second_simulator # <<>>
    /\ \E entropy \in RngStates :
         /\ second_simulator' = <<start_monte_carlo(second_simulator[1], entropy)>>
         /\ np_random_state' = RngAfterRun(second_simulator[1], entropy)
    /\ second_runs' = CountRun(second_runs)
    /\ UNCHANGED dataVars
    /\ UNCHANGED <<cfg, pc, single_time_monte_carlo, first_runs,
                   df_domestic_short_rate_processes, list_of_prices_Exotic_option,
                   cumulative_average_of_Exotic_Option_prices, printed>>

\* other code draws once from the process-wide generator
OtherDraw ==
    /\ np_random_state' = NextRng(np_random_state)
    /\ UNCHANGED dataVars
    /\ UNCHANGED <<cfg, pc, single_time_monte_carlo, first_runs, second_simulator,
                   second_runs, df_domestic_short_rate_processes,
                   list_of_prices_Exotic_option,
                   cumulative_average_of_Exotic_Option_prices, printed>>

NextObjects ==
    \/ Construct
    \/ ConstructSecond
    \/ RunFirst
    \/ RunSecond
    \/ OtherDraw

InitObjects == Init /\ cfg \in ObjectConfigs

SpecObjects == InitObjects /\ [][NextObjects]_vars

\* ------------------------------------------------- the data modules

\* the script has not started
ScriptIdle ==
    /\ cfg \in {c \in ObjectConfigs : /\ c.iteration_times = 1
                                      /\ c.domestic_risk_free_rate_vol = 0
                                      /\ c.random_seed = NoSeed}
    /\ pc = "setup"
    /\ single_time_monte_carlo = <<>>
    /\ first_runs = 0
    /\ second_simulator = <<>>
    /\ second_runs = 0
    /\ np_random_state = 0
    /\ df_domestic_short_rate_processes = <<>>
    /\ list_of_prices_Exotic_option = <<>>
    /\ cumulative_average_of_Exotic_Option_prices = <<>>
    /\ printed = <<>>

scriptVars == <<cfg, pc, single_time_monte_carlo, first_runs, second_simulator,
                second_runs, np_random_state, df_domestic_short_rate_processes,
                list_of_prices_Exotic_option,
                cumulative_average_of_Exotic_Option_prices, printed>>

\* Bond_Data.__init__ line 103: self.data = get_data_for_newest_day(url)
GetDataForNewestDay ==
    /\ newest_day = <<>>
    /\ newest_day' = <<get_data_for_newest_day(url_data)>>
    /\ UNCHANGED <<url_data, today, fred_observation, federal_funds_rate>>
    /\ UNCHANGED scriptVars

NextBondData == GetDataForNewestDay

InitBondData ==
    /\ ScriptIdle
    /\ url_data \in Feeds
    /\ newest_day = <<>>
    /\ today = [month |-> 5, day |-> 4, leap |-> FALSE]
    /\ fred_observation = 4
    /\ federal_funds_rate = <<>>

\* get_data_for_newest_day on any feed
SpecBondData == InitBondData /\ [][NextBondData]_vars

\* Option_Pricing.py line 35: fred_data.get_current_federal_funds_rate()
GetCurrentFederalFundsRate ==
    /\ federal_funds_rate = <<>>
    /\ federal_funds_rate' = <<get_current_federal_funds_rate(today, fred_observation)>>
    /\ UNCHANGED <<url_data, newest_day, today, fred_observation>>
    /\ UNCHANGED scriptVars

NextFedData == GetCurrentFederalFundsRate

InitFedData ==
    /\ ScriptIdle
    /\ url_data = PyDict(WeekRecord(1, 0))
    /\ newest_day = <<>>
    /\ today \in Dates
    /\ fred_observation \in ObservedMonths(today)
    /\ federal_funds_rate = <<>>

\* get_current_federal_funds_rate on any day
SpecFedData == InitFedData /\ [][NextFedData]_vars

\* ================================================================ claims

\* the script's simulator, once constructed
Sim == single_time_monte_carlo[1]

Constructed == single_time_monte_carlo # <<>>

LastPrice == list_of_prices_Exotic_option[Len(list_of_prices_Exotic_option)]

\* the script was given parameters inside their documented ranges
ValidRun == cfg \in ValidConfigs \cup SlopedConfigs \cup ZeroVolConfigs

\* ---------------------------------------------------------------------- C1
\* C1: the value each run appends to the per-run sequence is that run's
\* present value, discount_factor(maturity_T) times the payoff at maturity on
\* the run's path.  (Between two passes of the loop the simulator still holds
\* the path of the last run.)
C1_AppendedIsPresentValue ==
    (ValidRun /\ pc = "loop" /\ first_runs >= 1) =>
        LastPrice = ExtMul(Fin(discount_factor(Sim, Sim.maturity_T)),
                           price_Exotic_Option_at_maturity(Sim))

\* ---------------------------------------------------------------------- C2
RECURSIVE C2_Total(_, _)
C2_Total(listt, i) == IF i = 0 THEN 0 ELSE C2_Total(listt, i - 1) + listt[i].v

\* a is the arithmetic mean of entries 1..i of listt, to the resolution of the
\* numbers; the mean of a prefix holding an infinite payoff is infinite
C2_IsMeanOfRuns(a, listt, i) ==
    IF \E j \in 1..i : ~IsFinite(listt[j]) THEN a = PosInf
    ELSE IsFinite(a) /\ 2 * Abs(a.v * i - C2_Total(listt, i)) <= i

\* C2: cumulative_average_of_list returns as many entries as it is given,
\* entry i is the mean of runs 0..i and of no others, and the price printed
\* is the last entry, the mean of all NUM_SIMULATION runs.
C2_CumulativeAverageIsPrefixMean ==
    /\ LET c == cumulative_average_of_list(list_of_prices_Exotic_option)
       IN  /\ Len(c) = Len(list_of_prices_Exotic_option)
           /\ \A i \in 1..Len(c) :
                C2_IsMeanOfRuns(c[i], list_of_prices_Exotic_option, i)
    /\ pc = "done" =>
         /\ Len(cumulative_average_of_Exotic_Option_prices) = NUM_SIMULATION
         /\ \A i \in 1..NUM_SIMULATION :
              C2_IsMeanOfRuns(cumulative_average_of_Exotic_Option_prices[i],
                              list_of_prices_Exotic_option, i)
         /\ printed = <<cumulative_average_of_Exotic_Option_prices[NUM_SIMULATION]>>
         /\ C2_IsMeanOfRuns(printed[1], list_of_prices_Exotic_option, NUM_SIMULATION)

\* the script has reported over finite payoffs that are not all alike
C2_Witness ==
    /\ pc = "done"
    /\ \A i \in 1..NUM_SIMULATION : IsFinite(list_of_prices_Exotic_option[i])
    /\ list_of_prices_Exotic_option[1] # list_of_prices_Exotic_option[2]
    /\ cumulative_average_of_Exotic_Option_prices[1]
           # cumulative_average_of_Exotic_Option_prices[NUM_SIMULATION]

\* ---------------------------------------------------------------------- C3
C3_Perms ==
    {q \in [1..NUM_SIMULATION -> 1..NUM_SIMULATION] :
        \A i, j \in 1..NUM_SIMULATION : q[i] = q[j] => i = j}

C3_Permuted(q) == [i \in 1..NUM_SIMULATION |-> list_of_prices_Exotic_option[q[i]]]

C4_Seeded == cfg.random_seed # NoSeed

C4_SamePath(a, b) ==
    /\ a.domestic_risk_free_rate_list = b.domestic_risk_free_rate_list
    /\ a.nikkei_price_list = b.nikkei_price_list

\* C4: with an explicit seed, two objects built from the same arguments hold
\* the same paths once each has run, and a further run on an object that has
\* run leaves its paths as they are, whatever was drawn from the process-wide
\* generator in between.
C4_SeedDeterminism ==
    /\ [](C4_Seeded /\ first_runs >= 1 /\ second_runs >= 1
            => C4_SamePath(single_time_monte_carlo[1], second_simulator[1]))
    /\ [][C4_Seeded /\ RunSecond /\ second_runs >= 1
            => C4_SamePath(second_simulator[1], second_simulator'[1])]_vars
    /\ [][C4_Seeded /\ RunFirst /\ first_runs >= 1
            => C4_SamePath(single_time_monte_carlo[1], single_time_monte_carlo'[1])]_vars

\* both objects have run with a seed, the second more than once, the draws
\* matter to the path, and the process-wide generator has been drawn from
\* since the last run
C4_Witness ==
    /\ C4_Seeded
    /\ first_runs >= 1
    /\ second_runs >= 2
    /\ cfg.domestic_risk_free_rate_vol # 0
    /\ np_random_state # RngAfterRun(second_simulator[1], 0)

\* ---------------------------------------------------------------------- C5
C5_Objects ==
    (IF single_time_monte_carlo # <<>> THEN {<<single_time_monte_carlo[1], first_runs>>} ELSE {})
    \cup (IF second_simulator # <<>> THEN {<<second_simulator[1], second_runs>>} ELSE {})

C5_Lengths(self) ==
    /\ Len(self.domestic_risk_free_rate_list) = self.iteration_times + 1
    /\ Len(self.nikkei_price_list) = self.iteration_times + 1

C5_CurrentAtIndex0(self) ==
    /\ self.domestic_risk_free_rate_list[1] = cfg.current_federal_funds_rate
    /\ self.nikkei_price_list[1] = cfg.current_nikkei_price

\* C5 as claimed: in every state after construction both series have
\* iteration_times + 1 entries and hold the current values at index 0.
C5_CurrentValuesAlways ==
    \A o \in C5_Objects : C5_Lengths(o[1]) /\ C5_CurrentAtIndex0(o[1])

\* C5 as amended: in every state after construction both series have
\* iteration_times + 1 entries; once start_monte_carlo has been invoked at
\* least once they hold the current values at index 0.
C5_CurrentValuesAfterRun ==
    \A o \in C5_Objects :
        /\ C5_Lengths(o[1])
        /\ o[2] >= 1 => C5_CurrentAtIndex0(o[1])

\* an object has run more than once
C5_Witness ==
    /\ second_simulator # <<>>
    /\ second_runs >= 2
    /\ cfg.current_federal_funds_rate # 0

\* ---------------------------------------------------------------------- C6
\* C6: the payoff a run appends is never negative: it is the product of the
\* two legs when that product is positive (both legs negative included) and
\* 0 otherwise.
C6_PayoffFlooredAtZero ==
    (pc = "loop" /\ first_runs >= 1) =>
        LET product == ExtMul(NikkeiLeg(Sim), LiborLeg(Sim))
        IN  /\ ~IsNaN(LastPrice)
            /\ LastPrice.v >= 0
            /\ IF ExtGt(product, Fin(0)) THEN LastPrice = product
                                         ELSE LastPrice = Fin(0)

\* a run with both legs negative and finite, and a positive payoff
C6_Witness ==
    /\ pc = "loop"
    /\ first_runs >= 1
    /\ IsFinite(LiborLeg(Sim))
    /\ NikkeiLeg(Sim).v < 0
    /\ LiborLeg(Sim).v < 0
    /\ LastPrice.v > 0

\* ---------------------------------------------------------------------- C7
\* the times the discount factor is asked for: the quarters up to maturity
C7_Times == {T \in 0..cfg.maturity_T : T % (SCALE \div 4) = 0}

\* the sum of r[i] * timestep over the indices 0 .. end - 1
RECURSIVE C7_LeftRiemannSum(_, _)
C7_LeftRiemannSum(self, end) ==
    IF end = 0 THEN 0
    ELSE C7_LeftRiemannSum(self, end - 1)
         + FMul(self.domestic_risk_free_rate_list[end], self.timestep)

\* C7: discount_factor(T) is the exponential of minus the left Riemann sum
\* over the indices 0 .. end - 1, end = floor(T / timestep); the rate at index
\* end has no part in it, nothing floors or caps it, and on an all-zero path
\* it is exactly 1.
C7_DiscountFactorLeftSum ==
    Constructed =>
        \A T \in C7_Times :
            LET end == T \div Sim.timestep
                d == discount_factor(Sim, T)
            IN  /\ d = FExp(-C7_LeftRiemannSum(Sim, end))
                /\ \A x \in {-SCALE, 0, SCALE} :
                     discount_factor(
                         [Sim EXCEPT !.domestic_risk_free_rate_list[end + 1] = x], T) = d
                /\ (\A i \in 1..Len(Sim.domestic_risk_free_rate_list) :
                        Sim.domestic_risk_free_rate_list[i] = 0) => d = SCALE

\* after a run: a discount factor above 1, and a rate at index end that
\* would change it
C7_Witness ==
    /\ Constructed
    /\ first_runs >= 1
    /\ discount_factor(Sim, Sim.maturity_T) > SCALE
    /\ Sim.domestic_risk_free_rate_list[(Sim.maturity_T \div Sim.timestep) + 1] # 0

\* ---------------------------------------------------------------------- C8
C8_ValidParameters ==
    /\ cfg.mean_reversion_speed > 0
    /\ cfg.correlation_foreign_asset_and_domestic_risk_free_rate \in (-SCALE)..SCALE
    /\ cfg.correlation_foreign_asset_and_exchange_rate \in (-SCALE)..SCALE
    /\ cfg.domestic_risk_free_rate_vol >= 0
    /\ cfg.foreign_asset_vol >= 0
    /\ cfg.exchange_rate_vol >= 0
    /\ cfg.iteration_times > 0

\* C8: construction fails on invalid parameters: no simulator exists, and no
\* simulation step has run, with a non-positive mean-reversion speed, a
\* correlation outside [-1, 1], a negative volatility or iteration_times <= 0.
C8_InvalidParametersRejected ==
    (Constructed \/ first_runs >= 1) => C8_ValidParameters

\* ---------------------------------------------------------------------- C9
\* C9: a run whose payoff is not a finite number is left out of the
\* aggregate: the per-run values the estimate is computed from, and the
\* estimate reported, are finite.
C9_UnstableRunsExcluded ==
    (ValidRun /\ pc = "done") =>
        /\ \A k \in 1..Len(list_of_prices_Exotic_option) :
             IsFinite(list_of_prices_Exotic_option[k])
        /\ IsFinite(printed[1])

\* --------------------------------------------------------------------- C10
\* C10: a run whose leg product is NaN appends no value to the per-run
\* sequence (no default payoff stands in for it): after such a run the
\* sequence is shorter than the number of runs.
C10_NoDefaultForNaN ==
    (ValidRun /\ pc = "loop" /\ first_runs >= 1 /\ IsNaN(LegProduct(Sim))) =>
        Len(list_of_prices_Exotic_option) < first_runs

\* --------------------------------------------------------------------- C11
\* the curve prices libor_rate_ratio divides by the difference of, in the
\* call the payoff makes
C11_PriceAt_t == get_value_on_cubic_spline_for_bond_prices(Sim.bond_data,
                                                           Sim.maturity_T - Sim.Delta)

C11_PriceAt_T == get_value_on_cubic_spline_for_bond_prices(Sim.bond_data,
                                                           Sim.maturity_T)

\* C11: libor_rate_ratio(t, T) fails when price(t) = price(T) and never hands
\* an infinite or NaN ratio to the payoff: a run whose payoff was computed
\* and recorded had price(t) # price(T) and a finite ratio.
C11_LiborRatioNeverNonFinite ==
    (ValidRun /\ pc = "loop" /\ first_runs >= 1) =>
        /\ C11_PriceAt_t # C11_PriceAt_T
        /\ IsFinite(libor_rate_ratio(Sim, Sim.maturity_T - Sim.Delta, Sim.maturity_T))

\* --------------------------------------------------------------------- C12
\* the simulator after a first run that draws from generator state e
C12_RunFrom(e) == start_monte_carlo(SimInit(cfg), e)

\* With no volatility the runs do not depend on the draws: every value
\* recorded is the payoff of the run from any generator state, the present
\* value of the path the simulator holds is that of the run from any
\* generator state, and the cumulative averages are all the recorded value.
C12_RunsIdentical ==
    (cfg \in ZeroVolConfigs /\ first_runs >= 1) =>
        \A e \in RngStates :
            /\ \A k \in 1..Len(list_of_prices_Exotic_option) :
                 list_of_prices_Exotic_option[k]
                     = price_Exotic_Option_at_maturity(C12_RunFrom(e))
            /\ current_price_Exotic_Option(Sim)
                   = current_price_Exotic_Option(C12_RunFrom(e))
            /\ \A k \in 1..Len(cumulative_average_of_Exotic_Option_prices) :
                 cumulative_average_of_Exotic_Option_prices[k]
                     = list_of_prices_Exotic_option[1]

\* C12: with the three volatilities zero every run yields the same present
\* value whatever the draws or the seed, and every entry of the
\* cumulative-average sequence equals that present value.
C12_ZeroVolSamePresentValue ==
    (cfg \in ZeroVolConfigs /\ pc = "done") =>
        \A e \in RngStates :
            \A k \in 1..Len(cumulative_average_of_Exotic_Option_prices) :
                cumulative_average_of_Exotic_Option_prices[k]
                    = current_price_Exotic_Option(C12_RunFrom(e))

\* --------------------------------------------------------------------- C14
\* S + S * (r_f - q_f - rho_sx * sigma_f * sigma_x) * Delta_t
\*   + S * sigma_f * sqrt(Delta_t) * eps2
C14_AssetUpdate(self, S, eps2) ==
    S
    + FMul(FMul(S, self.foreign_risk_free_rate - self.nikkei_dividends
                   - FMul(FMul(self.correlation_foreign_asset_and_exchange_rate,
                               self.foreign_asset_vol),
                          self.exchange_rate_vol)),
           self.timestep)
    + FMul(FMul(FMul(S, self.foreign_asset_vol), FSqrt(self.timestep)), eps2)

\* r + (Theta(t) - a * r) * Delta_t
\*   + sigma_d * sqrt(Delta_t) * (rho_sr * eps2 + sqrt(1 - rho_sr^2) * eps1)
C14_RateUpdate(self, r, t, eps1, eps2) ==
    r
    + FMul(Theta(self, t) - FMul(self.mean_reversion_speed, r), self.timestep)
    + FMul(FMul(self.domestic_risk_free_rate_vol, FSqrt(self.timestep)),
           FMul(self.correlation_foreign_asset_and_domestic_risk_free_rate, eps2)
           + FMul(FSqrt(SCALE - FMul(self.correlation_foreign_asset_and_domestic_risk_free_rate,
                                      self.correlation_foreign_asset_and_domestic_risk_free_rate)),
                  eps1))

\* the draws number 2i and 2i + 1 the generator gives from state g
C14_Eps1(g, i) == Normal(RngAfter(g, 2 * i))

C14_Eps2(g, i) == Normal(RngAfter(g, 2 * i + 1))

\* the paths of self are those of the updates, step i using pair i of the
\* draws from state g and Theta at the left node i * Delta_t
C14_PathFrom(self, g) ==
    \A i \in 0..(self.iteration_times - 1) :
        /\ self.nikkei_price_list[i + 2] =
               C14_AssetUpdate(self, self.nikkei_price_list[i + 1], C14_Eps2(g, i))
        /\ self.domestic_risk_free_rate_list[i + 2] =
               C14_RateUpdate(self, self.domestic_risk_free_rate_list[i + 1],
                              i * self.timestep, C14_Eps1(g, i), C14_Eps2(g, i))

\* C14: after a run, step i of the paths has consumed pair i of the draws
\* (from the seed's state when a seed is given): the asset update uses only
\* eps2, the rate update uses the same eps2 weighted by rho_sr together with
\* eps1, and Theta is taken at the left node i * Delta_t.
C14_OnePairPerStep ==
    (Constructed /\ first_runs >= 1) =>
        \E g \in RngStates :
            /\ Sim.random_seed # NoSeed => g = SeedState(Sim.random_seed[1])
            /\ C14_PathFrom(Sim, g)

\* a run of two steps or more on a rising curve (Theta differs between the
\* nodes), with a volatile rate, whose second asset step had a non-zero eps2
C14_Witness ==
    /\ Constructed
    /\ first_runs >= 1
    /\ Sim.iteration_times >= 2
    /\ Sim.domestic_risk_free_rate_vol > 0
    /\ Theta(Sim, Sim.timestep) # Theta(Sim, 0)
    /\ Sim.nikkei_price_list[3] # C14_AssetUpdate(Sim, Sim.nikkei_price_list[2], 0)

\* --------------------------------------------------------------------- C15
\* in one step: every column and every value already recorded is kept as it
\* is, and a column added is the path the simulator holds after the run
C15_StepKeepsRecords ==
    /\ Len(df_domestic_short_rate_processes') >= Len(df_domestic_short_rate_processes)
    /\ \A k \in 1..Len(df_domestic_short_rate_processes) :
         df_domestic_short_rate_processes'[k] = df_domestic_short_rate_processes[k]
    /\ Len(list_of_prices_Exotic_option') >= Len(list_of_prices_Exotic_option)
    /\ \A k \in 1..Len(list_of_prices_Exotic_option) :
         list_of_prices_Exotic_option'[k] = list_of_prices_Exotic_option[k]
    /\ Len(df_domestic_short_rate_processes') > Len(df_domestic_short_rate_processes) =>
         df_domestic_short_rate_processes'[Len(df_domestic_short_rate_processes')]
             = single_time_monte_carlo'[1].domestic_risk_free_rate_list

\* C15: the short-rate path and the value recorded for a run are those the
\* run produced and no later step changes them, although every run
\* overwrites the simulator's lists in place.
C15_RecordedRunsNeverChange == [][C15_StepKeepsRecords]_vars

\* two runs or more are recorded and the simulator's list no longer holds
\* the path recorded for the first
C15_Witness ==
    /\ Len(df_domestic_short_rate_processes) >= 2
    /\ df_domestic_short_rate_processes[1] # Sim.domestic_risk_free_rate_list
    /\ df_domestic_short_rate_processes[Len(df_domestic_short_rate_processes)]
           = Sim.domestic_risk_free_rate_list

\* --------------------------------------------------------------------- C16
\* the times the accessors are asked for: every quarter up to the maturity
C16_Times == {time \in 0..cfg.maturity_T : time % (SCALE \div 4) = 0}

\* C16: for 0 <= time <= maturity both accessors return the entry of their
\* path at the index int(time / timestep), which lies in 0..iteration_times;
\* the payoff reads the asset at index iteration_times and the short rate at
\* the index of maturity - Delta.
C16_AccessorsReadNodes ==
    (ValidRun /\ Constructed /\ first_runs >= 1) =>
        /\ \A time \in C16_Times :
             /\ IndexInList(Sim, time) \in 0..Sim.iteration_times
             /\ get_domestic_risk_free_rate_at_a_specified_time(Sim, time)
                    = Sim.domestic_risk_free_rate_list[IndexInList(Sim, time) + 1]
             /\ get_nikkei_price_at_a_specified_time(Sim, time)
                    = Sim.nikkei_price_list[IndexInList(Sim, time) + 1]
        /\ IndexInList(Sim, Sim.maturity_T) = Sim.iteration_times
        /\ IndexInList(Sim, Sim.maturity_T - Sim.Delta)
               = ((Sim.maturity_T - Sim.Delta) * Sim.iteration_times) \div Sim.maturity_T

\* --------------------------------------------------------------------- C17
\* the weeks of the feed, in order
C17_Weeks == url_data.items

\* the last day record of week record w
C17_LastDayOf(w) ==
    IF w.LIST_G_NEW_DATE.kind = "list"
    THEN w.LIST_G_NEW_DATE.items[Len(w.LIST_G_NEW_DATE.items)]
    ELSE w.LIST_G_NEW_DATE.items[1]

\* C17: for every shape of the feed get_data_for_newest_day returns the last
\* day record of the last week record.
C17_NewestDayIsLastOfLastWeek ==
    newest_day # <<>> =>
        newest_day[1] = C17_LastDayOf(C17_Weeks[Len(C17_Weeks)])

\* C17 as the code has it: the last day record of the last week record when
\* the feed has at most five weeks, and of the fifth week record when it has
\* more.
C17_NewestDayIsLastOfFifthWeekAtMost ==
    newest_day # <<>> =>
        newest_day[1] =
            C17_LastDayOf(C17_Weeks[IF Len(C17_Weeks) <= 5 THEN Len(C17_Weeks) ELSE 5])

\* the newest day was taken from a feed of several weeks, five at most,
\* whose last week is a list of several days
C17_Witness ==
    /\ newest_day # <<>>
    /\ url_data.kind = "list"
    /\ Len(C17_Weeks) \in 2..5
    /\ C17_Weeks[Len(C17_Weeks)].LIST_G_NEW_DATE.kind = "list"
    /\ Len(C17_Weeks[Len(C17_Weeks)].LIST_G_NEW_DATE.items) >= 2

\* --------------------------------------------------------------------- C18
\* C18: whatever the date today, get_current_federal_funds_rate raises no
\* date error and returns the rate of the current month or of the month
\* before.
C18_NoDateError ==
    federal_funds_rate # <<>> =>
        /\ federal_funds_rate[1].kind = "rate"
        /\ federal_funds_rate[1].month \in ObservedMonths(today)

====
